---- MODULE Spec2Model ----
(***************************************************************************)
(* A model of src/client/simple_client.rs: the buffered socket reader      *)
(* HttpStream (Read / BufRead), and SimpleClient::get, which writes a      *)
(* fixed request, splits the response into lines and feeds them to a       *)
(* header/body closure driven by Content-Length.                           *)
(*                                                                         *)
(* Bytes are one-character strings; byte strings are sequences of them.    *)
(***************************************************************************)
EXTENDS Integers, Sequences, FiniteSets, TLC

VARIABLES
    stream,     \* every byte the peer sends on the connection before it closes
    sent,       \* how many of them the connection has delivered to a read so far
    buffer,     \* HttpStream.buffer: Box<[u8]>, 1-based here
    position,   \* HttpStream.position
    capacity,   \* HttpStream.capacity (the filled length, not buffer.len())
    handed,     \* history: the bytes handed to the caller of HttpStream, in order
    ret,        \* the last HttpStream operation and what it returned
    ops,        \* how many HttpStream operations the caller has made
    pc,         \* where SimpleClient::get is: "none", "start", "connect", "write",
                \*   "spawned", "done"
    written,    \* how many bytes of the request the one Ready poll_write took
    wlog,       \* history: the poll_write calls that returned Err or Ready, in order
    task,       \* read_to_end_task: "none", "idle", "polling", "complete", "eof",
                \*   "ioerr", "panicked", "dropped"
    line,       \* Lines.line: the part of the current line read so far
    in_http_header,       \* the closure's in_http_header
    http_content_remain,  \* the closure's http_content_remain: i64
    content,    \* the shared Arc<Mutex<String>> content
    fed,        \* history: the lines the closure was called with, and what it did
    result,     \* what get returned
    server,     \* history: the body the peer meant to send, the Content-Length it
                \*   declared, and whether it sent the whole body
    url         \* history: the url get was called with, by what Url::parse,
                \*   scheme() and to_socket_addrs() make of it

readerVars == <<buffer, position, capacity, handed, ret, ops>>
connVars == <<stream, sent>>
parseVars == <<in_http_header, http_content_remain, content, fed>>
getVars == <<pc, written, wlog, task, line, result, server, url>>
vars == <<connVars, readerVars, parseVars, getVars>>

(***************************************************************************)
(* Bounds of the model.                                                    *)
(***************************************************************************)
\* buffer.len() of the readers driven directly: with_capacity's capacity argument.
BufLen == 3
\* buffer.len() of the reader HttpStream::new builds for get: the source's
\* DEFAULT_HTTP_BUF_SIZE is 8 * 1024; the model scales it down.
DEFAULT_HTTP_BUF_SIZE == 2
\* usize is WordBits bits wide (64 in the source), so that position + amt can wrap.
WordBits == 3
\* The reader's caller makes at most MaxOps calls.
MaxOps == 5
\* The destination slices the caller passes to read are 0..MaxDest bytes long.
MaxDest == 4
\* The line sequence fed to the closure has at most MaxLines lines.
MaxLines == 4
\* get's write loop is followed through at most MaxWrites calls of poll_write
\* that return Err.
MaxWrites == 1

USIZE == 2 ^ WordBits

Min(a, b) == IF a <= b THEN a ELSE b

\* What Vec::with_capacity + set_len leaves in the buffer: uninitialized memory.
UNINIT == "?"

\* No url: get has not been called, or the model starts after its first lines.
NoUrl == [parse |-> "none", scheme |-> "none", addrs |-> 0]

IsPrefix(s, t) == Len(s) <= Len(t) /\ SubSeq(t, 1, Len(s)) = s

(***************************************************************************)
(* The connection (TcpStream, non-blocking).  A read into a slice of len   *)
(* bytes returns Ok(k) with the next k bytes, 1 <= k <= len, however the    *)
(* peer's bytes were chunked; Ok(0) for an empty slice or at end of stream; *)
(* or an error (WouldBlock when nothing has arrived, or a failure).         *)
(***************************************************************************)
inner_read(len) ==
    LET left == Len(stream) - sent
        okn  == IF len = 0 \/ left = 0 THEN {0} ELSE 1..Min(len, left)
    IN  {[ok |-> TRUE, n |-> k, err |-> "none"] : k \in okn}
        \cup {[ok |-> FALSE, n |-> 0, err |-> e] : e \in {"WouldBlock", "Other"}}

\* The bytes an Ok(n) read delivers.
Delivered(n) == SubSeq(stream, sent + 1, sent + n)

\* HttpStream as a value.
HttpStream == [buffer |-> buffer, position |-> position, capacity |-> capacity]

\* HttpStream::with_capacity: position and capacity start at 0.
with_capacity(buf) == [buffer |-> buf, position |-> 0, capacity |-> 0]

(***************************************************************************)
(* BufRead::fill_buf.  The set of its possible results on h: the reader    *)
(* after the call, whether it returned Ok, the slice returned, how many    *)
(* bytes it took from the connection and how many reads it issued.         *)
(***************************************************************************)
\* fill_buf marking the buffer empty from its start when the connection read fails.
fill_buf_reset_on_error(h) ==
    IF h.position >= h.capacity
    THEN {IF o.ok
          THEN LET b == [i \in 1..Len(h.buffer) |->
                            IF i <= o.n THEN stream[sent + i] ELSE h.buffer[i]]
               IN  [h |-> [buffer |-> b, position |-> 0, capacity |-> o.n],
                    ok |-> TRUE, val |-> SubSeq(b, 1, o.n),
                    took |-> o.n, reads |-> 1, err |-> "none"]
          ELSE [h |-> [h EXCEPT !.position = 0, !.capacity = 0], ok |-> FALSE,
                val |-> <<>>, took |-> 0, reads |-> 1, err |-> o.err]
          : o \in inner_read(Len(h.buffer))}
    ELSE {[h |-> h, ok |-> TRUE,
           val |-> SubSeq(h.buffer, h.position + 1, h.capacity),
           took |-> 0, reads |-> 0, err |-> "none"]}

\* fill_buf refilling on every call, unread bytes or not.
fill_buf_always_refills(h) ==
    {IF o.ok
     THEN LET b == [i \in 1..Len(h.buffer) |->
                       IF i <= o.n THEN stream[sent + i] ELSE h.buffer[i]]
          IN  [h |-> [buffer |-> b, position |-> 0, capacity |-> o.n],
               ok |-> TRUE, val |-> SubSeq(b, 1, o.n),
               took |-> o.n, reads |-> 1, err |-> "none"]
     ELSE [h |-> h, ok |-> FALSE, val |-> <<>>,
           took |-> 0, reads |-> 1, err |-> o.err]
     : o \in inner_read(Len(h.buffer))}

fill_buf(h) ==
    IF h.position >= h.capacity
    THEN {IF o.ok
          THEN LET b == [i \in 1..Len(h.buffer) |->
                            IF i <= o.n THEN stream[sent + i] ELSE h.buffer[i]]
               IN  [h |-> [buffer |-> b, position |-> 0, capacity |-> o.n],
                    ok |-> TRUE, val |-> SubSeq(b, 1, o.n),
                    took |-> o.n, reads |-> 1, err |-> "none"]
          ELSE [h |-> h, ok |-> FALSE, val |-> <<>>,
                took |-> 0, reads |-> 1, err |-> o.err]
          : o \in inner_read(Len(h.buffer))}
    ELSE {[h |-> h, ok |-> TRUE,
           val |-> SubSeq(h.buffer, h.position + 1, h.capacity),
           took |-> 0, reads |-> 0, err |-> "none"]}

(***************************************************************************)
(* BufRead::consume.  position + amt is a usize addition: it overflows     *)
(* when the sum does not fit the word; a build with overflow checks panics *)
(* there (the reader is left as it was), one without wraps.                *)
(***************************************************************************)
\* consume without the clamp to capacity.
consume_unclamped(h, amt) ==
    {[h |-> [h EXCEPT !.position = (h.position + amt) % USIZE], panic |-> FALSE]}

consume(h, amt) ==
    IF h.position + amt >= USIZE
    THEN {[h |-> [h EXCEPT !.position = Min((h.position + amt) % USIZE, h.capacity)],
           panic |-> FALSE],
          [h |-> h, panic |-> TRUE]}
    ELSE {[h |-> [h EXCEPT !.position = Min(h.position + amt, h.capacity)],
           panic |-> FALSE]}

(***************************************************************************)
(* Read::read into a destination of dest bytes.                            *)
(***************************************************************************)
\* read taking the direct path for every large destination, buffered bytes or not.
read_direct_when_large(h, dest) ==
    IF dest >= Len(h.buffer)
    THEN {[h |-> h, ok |-> o.ok, val |-> Delivered(o.n),
           took |-> o.n, reads |-> 1, err |-> o.err, direct |-> TRUE]
          : o \in inner_read(dest)}
    ELSE UNION {
          IF f.ok
          THEN LET nread == Min(dest, Len(f.val))
               IN  {[h |-> c.h, ok |-> TRUE, val |-> SubSeq(f.val, 1, nread),
                     took |-> f.took, reads |-> f.reads, err |-> "none",
                     direct |-> FALSE]
                    : c \in {x \in consume(f.h, nread) : ~x.panic}}
          ELSE {[h |-> f.h, ok |-> FALSE, val |-> <<>>,
                 took |-> 0, reads |-> f.reads, err |-> f.err, direct |-> FALSE]}
          : f \in fill_buf(h)}

\* read copying from the buffer without advancing position.
read_without_consume(h, dest) ==
    IF h.position = h.capacity /\ dest >= Len(h.buffer)
    THEN {[h |-> h, ok |-> o.ok, val |-> Delivered(o.n),
           took |-> o.n, reads |-> 1, err |-> o.err, direct |-> TRUE]
          : o \in inner_read(dest)}
    ELSE {IF f.ok
          THEN [h |-> f.h, ok |-> TRUE, val |-> SubSeq(f.val, 1, Min(dest, Len(f.val))),
                took |-> f.took, reads |-> f.reads, err |-> "none", direct |-> FALSE]
          ELSE [h |-> f.h, ok |-> FALSE, val |-> <<>>,
                took |-> 0, reads |-> f.reads, err |-> f.err, direct |-> FALSE]
          : f \in fill_buf(h)}

read(h, dest) ==
    IF h.position = h.capacity /\ dest >= Len(h.buffer)
    THEN {[h |-> h, ok |-> o.ok, val |-> Delivered(o.n),
           took |-> o.n, reads |-> 1, err |-> o.err, direct |-> TRUE]
          : o \in inner_read(dest)}
    ELSE UNION {
          IF f.ok
          THEN LET nread == Min(dest, Len(f.val))   \* <&[u8] as Read>::read
               IN  {[h |-> c.h, ok |-> TRUE, val |-> SubSeq(f.val, 1, nread),
                     took |-> f.took, reads |-> f.reads, err |-> "none",
                     direct |-> FALSE]
                    \* position + nread <= capacity < 2^WordBits: no overflow here
                    : c \in {x \in consume(f.h, nread) : ~x.panic}}
          ELSE {[h |-> f.h, ok |-> FALSE, val |-> <<>>,
                 took |-> 0, reads |-> f.reads, err |-> f.err, direct |-> FALSE]}
          : f \in fill_buf(h)}

(***************************************************************************)
(* Text.  The str methods the closure of get calls, on sequences of        *)
(* one-character strings.                                                  *)
(***************************************************************************)
HTTP == <<"H", "T", "T", "P">>
CONTENT_LENGTH == <<"C", "o", "n", "t", "e", "n", "t", "-", "L", "e", "n", "g", "t", "h">>
LF == "\n"
CR == "\r"

\* char::is_whitespace, for the characters of the model.
is_whitespace(c) == c \in {" ", "\t", LF, CR}

\* str::find: the 0-based index of the first occurrence of pat in s, or -1 (None).
find(s, pat) ==
    LET at == {i \in 0..(Len(s) - Len(pat)) : SubSeq(s, i + 1, i + Len(pat)) = pat}
    IN  IF at = {} THEN -1 ELSE CHOOSE i \in at : \A j \in at : i <= j

\* str::trim: s without its leading and trailing whitespace.
trim(s) ==
    LET keep == {i \in 1..Len(s) : ~is_whitespace(s[i])}
    IN  IF keep = {} THEN <<>>
        ELSE SubSeq(s, CHOOSE i \in keep : \A j \in keep : i <= j,
                       CHOOSE i \in keep : \A j \in keep : i >= j)

\* str::splitn(2, ':'): the part before the first ':' and, when there is a ':',
\* the part after it (the second next() is None without one).
splitn2(s) ==
    LET i == find(s, <<":">>)
    IN  IF i < 0 THEN [title |-> s, some |-> FALSE, content |-> <<>>]
        ELSE [title |-> SubSeq(s, 1, i), some |-> TRUE,
              content |-> SubSeq(s, i + 2, Len(s))]

DIGITS == <<"0", "1", "2", "3", "4", "5", "6", "7", "8", "9">>

DigitValue(c) == (CHOOSE i \in 1..10 : DIGITS[i] = c) - 1

RECURSIVE DecimalValue(_)
DecimalValue(ds) ==
    IF ds = <<>> THEN 0
    ELSE 10 * DecimalValue(SubSeq(ds, 1, Len(ds) - 1)) + DigitValue(ds[Len(ds)])

\* str::parse::<i64>: an optional sign and one or more decimal digits; anything
\* else is Err.  (The numerals of the model have at most two digits, far
\* from the i64 range, whose overflow is an Err as well.)
parse_i64(s) ==
    LET signed == s # <<>> /\ s[1] \in {"+", "-"}
        ds     == IF signed THEN Tail(s) ELSE s
        isnum  == ds # <<>> /\ \A i \in 1..Len(ds) : \E d \in 1..10 : DIGITS[d] = ds[i]
    IN  IF ~isnum THEN [ok |-> FALSE, val |-> 0]
        ELSE [ok |-> TRUE,
              val |-> IF signed /\ s[1] = "-" THEN 0 - DecimalValue(ds)
                      ELSE DecimalValue(ds)]

\* The closure looking for a status line before it does the body accounting.
closure_status_line_first(st, input) ==
    IF find(input, HTTP) >= 0
    THEN [st |-> [st EXCEPT !.in_http_header = TRUE],
          out |-> "Ok", acct |-> FALSE, assigned |-> FALSE]
    ELSE IF ~st.in_http_header /\ st.http_content_remain > 0
    THEN LET remain == st.http_content_remain - (Len(input) + 1)
             text   == st.content \o input \o <<LF>>
         IN  IF remain <= 0
             THEN [st |-> [st EXCEPT !.http_content_remain = remain,
                                     !.content = SubSeq(text, 1, Len(text) - 1)],
                   out |-> "Err", acct |-> TRUE, assigned |-> FALSE]
             ELSE [st |-> [st EXCEPT !.http_content_remain = remain,
                                     !.content = text],
                   out |-> "Ok", acct |-> TRUE, assigned |-> FALSE]
    ELSE IF trim(input) = <<>>
    THEN [st |-> [st EXCEPT !.in_http_header = FALSE],
          out |-> "Ok", acct |-> FALSE, assigned |-> FALSE]
    ELSE LET header_content == splitn2(input)
         IN  IF ~header_content.some
             THEN [st |-> st, out |-> "Panic", acct |-> FALSE, assigned |-> FALSE]
             ELSE IF find(trim(header_content.title), CONTENT_LENGTH) = 0
             THEN LET num == parse_i64(trim(header_content.content))
                  IN  IF ~num.ok
                      THEN [st |-> st, out |-> "Panic", acct |-> FALSE,
                            assigned |-> FALSE]
                      ELSE [st |-> [st EXCEPT !.http_content_remain = num.val],
                            out |-> "Ok", acct |-> FALSE, assigned |-> TRUE]
             ELSE [st |-> st, out |-> "Ok", acct |-> FALSE, assigned |-> FALSE]

(***************************************************************************)
(* The closure get passes to for_each, called with one line.  st is its    *)
(* captured state (in_http_header, http_content_remain) and the shared     *)
(* content; the result is the state after the call, what the call did      *)
(* ("Ok": Ok(()), "Err": Err(()), which ends the stream, "Panic": an       *)
(* unwrap of None or Err), whether the line went to body accounting and    *)
(* whether http_content_remain was assigned from a header.                 *)
(***************************************************************************)
closure(st, input) ==
    IF ~st.in_http_header /\ st.http_content_remain > 0
    THEN LET remain == st.http_content_remain - (Len(input) + 1)
             text   == st.content \o input \o <<LF>>
         IN  IF remain <= 0
             THEN [st |-> [st EXCEPT !.http_content_remain = remain,
                                     !.content = SubSeq(text, 1, Len(text) - 1)],
                   out |-> "Err", acct |-> TRUE, assigned |-> FALSE]
             ELSE [st |-> [st EXCEPT !.http_content_remain = remain,
                                     !.content = text],
                   out |-> "Ok", acct |-> TRUE, assigned |-> FALSE]
    ELSE IF find(input, HTTP) >= 0
    THEN [st |-> [st EXCEPT !.in_http_header = TRUE],
          out |-> "Ok", acct |-> FALSE, assigned |-> FALSE]
    ELSE IF trim(input) = <<>>
    THEN [st |-> [st EXCEPT !.in_http_header = FALSE],
          out |-> "Ok", acct |-> FALSE, assigned |-> FALSE]
    ELSE LET header_content == splitn2(input)
         IN  IF ~header_content.some
             THEN [st |-> st, out |-> "Panic", acct |-> FALSE, assigned |-> FALSE]
             ELSE IF find(trim(header_content.title), CONTENT_LENGTH) = 0
             THEN LET num == parse_i64(trim(header_content.content))
                  IN  IF ~num.ok
                      THEN [st |-> st, out |-> "Panic", acct |-> FALSE,
                            assigned |-> FALSE]
                      ELSE [st |-> [st EXCEPT !.http_content_remain = num.val],
                            out |-> "Ok", acct |-> FALSE, assigned |-> TRUE]
             ELSE [st |-> st, out |-> "Ok", acct |-> FALSE, assigned |-> FALSE]

\* The closure's state as a value.
ParseState == [in_http_header |-> in_http_header,
               http_content_remain |-> http_content_remain,
               content |-> content]

\* The closure's state when get creates it.
InitParse ==
    /\ in_http_header = FALSE
    /\ http_content_remain = 0
    /\ content = <<>>
    /\ fed = <<>>

\* for_each calls the closure with input: the closure's state and the task after.
Feed(input) ==
    LET c == closure(ParseState, input)
    IN  /\ in_http_header' = c.st.in_http_header
        /\ http_content_remain' = c.st.http_content_remain
        /\ content' = c.st.content
        /\ fed' = Append(fed, [line |-> input, acct |-> c.acct,
                               assigned |-> c.assigned, out |-> c.out,
                               hdr |-> in_http_header,
                               remain |-> http_content_remain])
        /\ task' = CASE c.out = "Ok" -> "polling"
                     [] c.out = "Err" -> "complete"
                     [] OTHER -> "panicked"

\* No exchange is running: the state of get's variables in the reader's own runs.
NoExchange ==
    /\ pc = "none"
    /\ written = 0
    /\ wlog = <<>>
    /\ task = "none"
    /\ line = <<>>
    /\ result = [ok |-> FALSE, body |-> <<>>]
    /\ url = NoUrl
    /\ server = [body |-> <<>>, cl |-> 0, whole |-> TRUE]
    /\ InitParse

(***************************************************************************)
(* The reader driven by an arbitrary caller.                               *)
(***************************************************************************)
\* The byte streams the peer may send: distinct bytes, so that a dropped,
\* repeated or reordered byte shows.
ReaderStreams == {<<"a", "b", "c", "d", "e">>, <<"a", "b">>, <<>>}

InitReader ==
    /\ stream \in ReaderStreams
    /\ sent = 0
    /\ buffer \in [1..BufLen -> {UNINIT}]
    /\ position = with_capacity(buffer).position
    /\ capacity = with_capacity(buffer).capacity
    /\ handed = <<>>
    /\ ret = [op |-> "new"]
    /\ ops = 0
    /\ NoExchange

SetReader(h) ==
    /\ buffer' = h.buffer
    /\ position' = h.position
    /\ capacity' = h.capacity

CallFillBuf ==
    /\ ops < MaxOps
    /\ \E f \in fill_buf(HttpStream) :
        /\ SetReader(f.h)
        /\ sent' = sent + f.took
        /\ ret' = [op |-> "fill_buf", ok |-> f.ok, val |-> f.val, reads |-> f.reads,
                   before |-> HttpStream]
        /\ handed' = handed
    /\ ops' = ops + 1
    /\ UNCHANGED <<stream, parseVars, getVars>>

DoConsume(amt) ==
    \E c \in consume(HttpStream, amt) :
        /\ SetReader(c.h)
        /\ ret' = [op |-> "consume", amt |-> amt, panic |-> c.panic,
                   before |-> HttpStream]
        /\ handed' = IF c.h.position >= position
                     THEN handed \o SubSeq(buffer, position + 1, c.h.position)
                     ELSE handed
        /\ ops' = ops + 1
        /\ UNCHANGED <<stream, sent, parseVars, getVars>>

\* consume(amt) for any amt of the word range.
CallConsume ==
    /\ ops < MaxOps
    /\ \E amt \in 0..(USIZE - 1) : DoConsume(amt)

\* consume(amt) as BufRead's contract has it: right after a fill_buf that returned
\* a slice, with amt no larger than that slice.
CallConsumeWithin ==
    /\ ops < MaxOps
    /\ ret.op = "fill_buf"
    /\ ret.ok
    /\ \E amt \in 0..Len(ret.val) : DoConsume(amt)

CallRead ==
    /\ ops < MaxOps
    /\ \E dest \in 0..MaxDest : \E r \in read(HttpStream, dest) :
        /\ SetReader(r.h)
        /\ sent' = sent + r.took
        /\ ret' = [op |-> "read", dest |-> dest, ok |-> r.ok, val |-> r.val,
                   reads |-> r.reads, direct |-> r.direct, before |-> HttpStream]
        /\ handed' = handed \o r.val
    /\ ops' = ops + 1
    /\ UNCHANGED <<stream, parseVars, getVars>>

NextReader == CallFillBuf \/ CallConsume \/ CallRead

Spec == InitReader /\ [][NextReader]_vars

NextDisciplined == CallFillBuf \/ CallConsumeWithin \/ CallRead

SpecDisciplined == InitReader /\ [][NextDisciplined]_vars

(***************************************************************************)
(* The closure driven by an arbitrary sequence of lines: what for_each     *)
(* does with the lines io::lines yields, and what get returns after the    *)
(* task has ended.                                                         *)
(***************************************************************************)
STATUS_LINE == <<"H", "T", "T", "P", "/", "1", ".", "1", " ", "2", "0", "0", " ", "O", "K">>
HELLO_WORLD == <<"H", "e", "l", "l", "o", " ", "W", "o", "r", "l", "d", "!">>
CL(v) == CONTENT_LENGTH \o <<":", " ">> \o v

\* The lines the stream may yield: a status line, blank lines, Content-Length
\* headers (well-formed, padded, not a number), another header, a header whose
\* value holds "HTTP", and lines without a colon (body text).
TestLines ==
    { STATUS_LINE, <<>>, <<" ">>,
      CL(<<"0">>), CL(<<"3">>), CL(<<"5">>), CL(<<"1", "2">>), CL(<<"x">>),
      <<" ">> \o CONTENT_LENGTH \o <<" ", ":", "3", " ">>,
      <<"X", ":", " ", "y">>, <<"V", "i", "a", ":">> \o HTTP,
      <<"a", "b">>, <<"a", "b", "c", "d">>, HELLO_WORLD }

\* The states in which the task is over: it will not run again.
TaskOver == {"complete", "eof", "ioerr", "panicked", "dropped"}

InitMachine ==
    /\ stream = <<>>
    /\ sent = 0
    /\ buffer \in [1..DEFAULT_HTTP_BUF_SIZE -> {UNINIT}]
    /\ position = with_capacity(buffer).position
    /\ capacity = with_capacity(buffer).capacity
    /\ handed = <<>>
    /\ ret = [op |-> "new"]
    /\ ops = 0
    /\ pc = "spawned"
    /\ written = 0
    /\ wlog = <<>>
    /\ task = "polling"
    /\ line = <<>>
    /\ result = [ok |-> FALSE, body |-> <<>>]
    /\ url = NoUrl
    /\ server = [body |-> <<>>, cl |-> 0, whole |-> TRUE]
    /\ InitParse

\* The stream yields a line and for_each calls the closure with it.
LinesYield ==
    /\ pc = "spawned"
    /\ task = "polling"
    /\ Len(fed) < MaxLines
    /\ \E input \in TestLines : Feed(input)
    /\ UNCHANGED <<connVars, readerVars, pc, written, wlog, line, result, server, url>>

\* The stream ends (the connection was closed): for_each resolves to Ok(()).
LinesEnd ==
    /\ pc = "spawned"
    /\ task = "polling"
    /\ task' = "eof"
    /\ UNCHANGED <<connVars, readerVars, parseVars, pc, written, wlog, line,
                   result, server, url>>

\* The stream fails (a connection read error): map_err prints it, the task ends.
LinesError ==
    /\ pc = "spawned"
    /\ task = "polling"
    /\ task' = "ioerr"
    /\ UNCHANGED <<connVars, readerVars, parseVars, pc, written, wlog, line,
                   result, server, url>>

\* The runtimes have shut down; get locks content and returns Ok(HttpResponse).
GetReturn ==
    /\ pc = "spawned"
    /\ task \in TaskOver
    /\ pc' = "done"
    /\ result' = [ok |-> TRUE, body |-> content]
    /\ UNCHANGED <<connVars, readerVars, parseVars, written, wlog, task, line,
                   server, url>>

NextMachine == LinesYield \/ LinesEnd \/ LinesError \/ GetReturn

SpecMachine == InitMachine /\ [][NextMachine]_vars

(***************************************************************************)
(* SimpleClient::get from the connected socket on: the write loop, then    *)
(* read_to_end_task (io::lines over HttpStream, for_each with the closure) *)
(* spawned on a runtime that is shut down at once, then the return.        *)
(***************************************************************************)
REQUEST ==
    <<"G", "E", "T", " ", "/", " ", "H", "T", "T", "P", "/", "2", ".", "0", "\n", "H", "o", "s", "t", ":", " ", "l", "o", "c", "a", "l", "h", "o", "s", "t", "\n", "C", "o", "n", "n", "e", "c", "t", "i", "o", "n", ":", " ", "k", "e", "e", "p", "-", "a", "l", "i", "v", "e", "\n", "\n">>

\* How many bytes a Ready poll_write may have taken: a part of the request, or all.
WriteSizes == {1, Len(REQUEST)}

CRLF == <<CR, LF>>

\* A response on the wire: head, then wire; body and cl are what the server meant
\* to send and the Content-Length it declared (wire is shorter than body when
\* the connection closes early).
Response(head, body, cl, wire) == [head |-> head, body |-> body, cl |-> cl, wire |-> wire]

HeadLF(v) == STATUS_LINE \o <<LF>> \o CL(v) \o <<LF, LF>>
HeadCRLF(v) == STATUS_LINE \o CRLF \o CL(v) \o CRLF \o CRLF

GetResponses ==
    { Response(HeadLF(<<"1", "2">>), HELLO_WORLD, 12, HELLO_WORLD),
      Response(HeadLF(<<"3">>), <<"a", "b", LF>>, 3, <<"a", "b", LF>>),
      Response(HeadLF(<<"5">>), <<"a", "b", LF, "c", "d">>, 5, <<"a", "b", LF, "c", "d">>),
      Response(HeadCRLF(<<"4">>), <<"a", CR, LF, "b">>, 4, <<"a", CR, LF, "b">>),
      Response(HeadLF(<<"0">>), <<>>, 0, <<>>),
      Response(HeadLF(<<"5">>), <<"a", "b", LF, "c", "d">>, 5, <<"a", "b", LF>>),
      Response(STATUS_LINE \o <<LF, LF>>, <<>>, 0, <<>>),
      Response(STATUS_LINE \o <<LF>> \o <<"a", "b", LF, LF>>, <<>>, 0, <<>>),
      Response(STATUS_LINE \o <<LF>> \o CL(<<"x">>) \o <<LF, LF>>, <<>>, 0, <<>>) }

InitGet ==
    /\ \E r \in GetResponses :
        /\ stream = r.head \o r.wire
        /\ server = [body |-> r.body, cl |-> r.cl, whole |-> r.wire = r.body]
    /\ sent = 0
    /\ buffer \in [1..DEFAULT_HTTP_BUF_SIZE -> {UNINIT}]
    /\ position = with_capacity(buffer).position
    /\ capacity = with_capacity(buffer).capacity
    /\ handed = <<>>
    /\ ret = [op |-> "new"]
    /\ ops = 0
    /\ pc = "write"
    /\ written = 0
    /\ wlog = <<>>
    /\ task = "none"
    /\ line = <<>>
    /\ result = [ok |-> FALSE, body |-> <<>>]
    /\ url = NoUrl
    /\ InitParse

\* One pass of the write loop.  Ok(Ready(n)) breaks out of it, whatever n is;
\* get then builds the task, spawns it and asks the runtime to shut down now.
\* An Err is printed and followed, as Ok(NotReady) is, by a sleep and another
\* pass.
PollWrite ==
    /\ pc = "write"
    /\ \/ \E n \in WriteSizes :
            /\ written' = n
            /\ wlog' = Append(wlog, "Ready")
            /\ pc' = "spawned"
            /\ task' = "idle"
       \/ /\ Len(wlog) < MaxWrites
          /\ wlog' = Append(wlog, "Err")
          /\ UNCHANGED <<written, pc, task>>
       \/ UNCHANGED <<written, wlog, pc, task>>
    /\ UNCHANGED <<connVars, readerVars, parseVars, line, result, server, url>>

\* Lines::poll's end of line: a trailing "\n" is popped, then a trailing "\r".
strip_eol(l) ==
    LET a == IF l # <<>> /\ l[Len(l)] = LF THEN SubSeq(l, 1, Len(l) - 1) ELSE l
    IN  IF a # l /\ a # <<>> /\ a[Len(a)] = CR THEN SubSeq(a, 1, Len(a) - 1) ELSE a

(***************************************************************************)
(* One pass of read_until's loop inside Lines::poll, inside the task's     *)
(* poll: fill_buf, memchr for "\n", extend the line, consume.  When the    *)
(* line is over (a "\n", or no bytes at end of stream) Lines yields it to  *)
(* for_each, which calls the closure in the same poll; an empty line at    *)
(* end of stream ends the stream.  WouldBlock returns NotReady: the task   *)
(* is parked with the partial line kept; another error ends the task.      *)
(***************************************************************************)
TaskStep ==
    /\ pc = "spawned"
    /\ task \in {"idle", "polling"}
    /\ \E f \in fill_buf(HttpStream) :
        IF ~f.ok
        THEN /\ task' = IF f.err = "WouldBlock" THEN "idle" ELSE "ioerr"
             /\ UNCHANGED <<sent, buffer, position, capacity, line, parseVars>>
        ELSE LET i     == find(f.val, <<LF>>)
                 used  == IF i >= 0 THEN i + 1 ELSE Len(f.val)
                 line1 == line \o SubSeq(f.val, 1, used)
                 done  == i >= 0 \/ used = 0
             IN  /\ sent' = sent + f.took
                 /\ \E c \in consume(f.h, used) : ~c.panic /\ SetReader(c.h)
                 /\ IF ~done
                    THEN /\ line' = line1
                         /\ task' = "polling"
                         /\ UNCHANGED parseVars
                    ELSE /\ line' = <<>>
                         /\ IF line1 = <<>>
                            THEN task' = "eof" /\ UNCHANGED parseVars
                            ELSE Feed(strip_eol(line1))
    /\ UNCHANGED <<stream, handed, ret, ops, pc, written, wlog, result, server, url>>

\* shutdown_now: a task that is not being polled (never polled yet, or parked
\* after NotReady) is dropped without being polled again.
ShutdownNow ==
    /\ pc = "spawned"
    /\ task = "idle"
    /\ task' = "dropped"
    /\ UNCHANGED <<connVars, readerVars, parseVars, pc, written, wlog, line,
                   result, server, url>>

NextGet == PollWrite \/ TaskStep \/ ShutdownNow \/ GetReturn

SpecGet == InitGet /\ [][NextGet]_vars

(***************************************************************************)
(* SimpleClient::get from its first line: Url::parse, the scheme check,    *)
(* to_socket_addrs and TcpStream::connect, then the exchange above.  The   *)
(* url crate, the resolver and the connect are outside this file: a url is *)
(* what they make of it.                                                   *)
(***************************************************************************)
\* parse: whether Url::parse returns Ok; scheme: what scheme() returns;
\* addrs: how many addresses to_socket_addrs yields, -1 when it returns Err.
Urls ==
    {[parse |-> "Ok", scheme |-> s, addrs |-> a] :
        s \in {"http", "https"}, a \in {-1, 0, 1}}
    \cup {[parse |-> "Err", scheme |-> "none", addrs |-> -1]}

\* Err(HttpResponseError::...) as get's result.
HttpResponseError(e) == [ok |-> FALSE, body |-> <<>>, err |-> e]

\* The responses of the peer in the runs that start at get's first line.
CallResponses == {r \in GetResponses : r.cl = 3}

InitCall ==
    /\ \E r \in CallResponses :
        /\ stream = r.head \o r.wire
        /\ server = [body |-> r.body, cl |-> r.cl, whole |-> r.wire = r.body]
    /\ sent = 0
    /\ buffer \in [1..DEFAULT_HTTP_BUF_SIZE -> {UNINIT}]
    /\ position = with_capacity(buffer).position
    /\ capacity = with_capacity(buffer).capacity
    /\ handed = <<>>
    /\ ret = [op |-> "new"]
    /\ ops = 0
    /\ pc = "start"
    /\ written = 0
    /\ wlog = <<>>
    /\ task = "none"
    /\ line = <<>>
    /\ result = [ok |-> FALSE, body |-> <<>>]
    /\ url = NoUrl
    /\ InitParse

\* Lines 155-160 and 235-237: `?` on Url::parse, the scheme check, then
\* `if let Ok(..) = to_socket_addrs()` whose else branch returns
\* Ok(HttpResponse::new("Hello World!")); next().unwrap() panics when the
\* resolver returned no address.
GetEntry ==
    /\ pc = "start"
    /\ \E u \in Urls :
        /\ url' = u
        /\ IF u.parse = "Err"
           THEN pc' = "done" /\ result' = HttpResponseError("ParseURL")
           ELSE IF u.scheme # "http"
           THEN pc' = "done" /\ result' = HttpResponseError("NotHttpScheme")
           ELSE IF u.addrs < 0
           THEN pc' = "done" /\ result' = [ok |-> TRUE, body |-> HELLO_WORLD]
           ELSE IF u.addrs = 0
           THEN pc' = "panicked" /\ UNCHANGED result
           ELSE pc' = "connect" /\ UNCHANGED result
    /\ UNCHANGED <<connVars, readerVars, parseVars, written, wlog, task, line, server>>

\* connect_future resolves.  Ok(socket): and_then runs the write loop.  Err:
\* and_then is skipped, map_err prints the error, the task is over, the runtime
\* is idle and get returns Ok with the content nobody wrote to.
Connect ==
    /\ pc = "connect"
    /\ \/ pc' = "write" /\ UNCHANGED result
       \/ pc' = "done" /\ result' = [ok |-> TRUE, body |-> content]
    /\ UNCHANGED <<connVars, readerVars, parseVars, written, wlog, task, line,
                   server, url>>

NextCall == GetEntry \/ Connect \/ PollWrite \/ TaskStep \/ ShutdownNow \/ GetReturn

SpecCall == InitCall /\ [][NextCall]_vars

\* The unread bytes of the buffer.
Unread == SubSeq(buffer, position + 1, capacity)

(***************************************************************************)
(* C1: after any sequence of fill_buf, consume(n) and read(dest), for any  *)
(* n of the word range, any destination size and any outcome of the        *)
(* connection read, 0 <= position <= capacity <= buffer.len().             *)
(***************************************************************************)
C1_CursorWithinFilledWithinBuffer ==
    /\ position \in Nat
    /\ capacity \in Nat
    /\ position <= capacity
    /\ capacity <= Len(buffer)

\* A full buffer was read and a consume whose addition overflowed has wrapped.
C1_Witness ==
    /\ ret.op = "consume"
    /\ ~ret.panic
    /\ ret.before.position + ret.amt >= USIZE
    /\ ret.before.position > 0
    /\ capacity = Len(buffer)

(***************************************************************************)
(* C2: with consume called as BufRead's contract has it, the bytes handed  *)
(* to the caller are, in order, a prefix of the bytes the connection       *)
(* delivered, and every delivered byte not yet handed out is still unread  *)
(* in the buffer: none is dropped, repeated or reordered, on the direct    *)
(* path of read as on the buffered one.                                    *)
(***************************************************************************)
C2_HandedIsPrefixOfDelivered ==
    /\ IsPrefix(handed, SubSeq(stream, 1, sent))
    /\ handed \o Unread = SubSeq(stream, 1, sent)

\* A direct read has handed out the last bytes of the stream after earlier bytes
\* went through the buffer, which is now used up.
C2_Witness ==
    /\ capacity > 0
    /\ position = capacity
    /\ ret.op = "read"
    /\ ret.ok
    /\ ret.direct
    /\ Len(ret.val) > 0
    /\ Len(handed) > Len(ret.val) + 1
    /\ sent = Len(stream)
    /\ handed = stream

(***************************************************************************)
(* What the claims about the closure call a blank line and a malformed     *)
(* header, read off the line itself.                                       *)
(***************************************************************************)
IsBlank(l) == trim(l) = <<>>
HasHTTP(l) == find(l, HTTP) >= 0
HasColon(l) == find(l, <<":">>) >= 0

\* A non-blank line with neither "HTTP" nor a ':'.
NoColonLine(l) == ~IsBlank(l) /\ ~HasHTTP(l) /\ ~HasColon(l)

\* A Content-Length header whose trimmed value is not an integer.
BadContentLength(l) ==
    /\ ~HasHTTP(l)
    /\ HasColon(l)
    /\ find(trim(splitn2(l).title), CONTENT_LENGTH) = 0
    /\ ~parse_i64(trim(splitn2(l).content)).ok

\* The i-th line fed was malformed and was not handled by body accounting.
MalformedHeaderAt(i) ==
    /\ ~fed[i].acct
    /\ NoColonLine(fed[i].line) \/ BadContentLength(fed[i].line)

\* The i-th line fed was a blank line handled as the end of the headers.
BlankLineAt(i) == IsBlank(fed[i].line) /\ ~fed[i].acct /\ ~HasHTTP(fed[i].line)

\* The response began with a status line, as a well-formed one does.
StatusLineFirst == fed # <<>> /\ HasHTTP(fed[1].line) /\ ~fed[1].acct

(***************************************************************************)
(* C3: whatever the chunks the connection delivers the response in, when   *)
(* the server sent a body of exactly the declared Content-Length, the body *)
(* accumulated when the closure ends the stream is byte for byte the body  *)
(* the server sent, and as long as the declared Content-Length.            *)
(***************************************************************************)
C3_BodyIsWhatTheServerSent ==
    (task = "complete" /\ server.whole /\ Len(server.body) = server.cl)
        => /\ content = server.body
           /\ Len(content) = server.cl

(***************************************************************************)
(* C4: when the server replies with a status line, Content-Length: N, a    *)
(* blank line and a one-line body of exactly N bytes (Hello World!, N =    *)
(* 12), and no connection read fails, get returns Ok with exactly that     *)
(* body.                                                                   *)
(***************************************************************************)
C4_GetReturnsTheBody ==
    ( /\ pc = "done"
      /\ task # "ioerr"
      /\ server.whole
      /\ server.body = HELLO_WORLD
      /\ server.cl = Len(HELLO_WORLD) )
    => result = [ok |-> TRUE, body |-> server.body]

(***************************************************************************)
(* C5: if the line sequence ends while the closure is in the body phase    *)
(* with http_content_remain > 0, get does not return Ok: the exchange ends *)
(* with an incomplete-body error, never with the truncated body.  (Stated  *)
(* for a response that began with a status line and sent part of a body.)  *)
(***************************************************************************)
C5_IncompleteBodyIsAnError ==
    ( /\ pc = "done"
      /\ task = "eof"
      /\ StatusLineFirst
      /\ ~in_http_header
      /\ http_content_remain > 0
      /\ content # <<>> )
    => ~result.ok

(***************************************************************************)
(* C6: a malformed header line outside body accounting (no "HTTP" and no   *)
(* ':', or a Content-Length value that is not an integer) never panics the *)
(* parsing task, and the exchange it is part of ends with an error.        *)
(* (Stated for a response that began with a status line.)                  *)
(***************************************************************************)
C6_MalformedHeaderFailsWithoutPanic ==
    \A i \in 1..Len(fed) :
        (StatusLineFirst /\ MalformedHeaderAt(i)) =>
            /\ fed[i].out # "Panic"
            /\ task # "panicked"
            /\ pc = "done" => ~result.ok

(***************************************************************************)
(* C7: when the headers declared Content-Length: 0, the blank line ends    *)
(* the exchange: the task is complete there with an empty body, and no     *)
(* line after the blank line is fed to the closure.  (Stated for a         *)
(* response that began with a status line.)                                *)
(***************************************************************************)
C7_ZeroLengthCompletesAtBlankLine ==
    \A i \in 1..Len(fed) :
        ( /\ StatusLineFirst
          /\ BlankLineAt(i)
          /\ fed[i].remain = 0
          /\ \E j \in 1..(i - 1) : fed[j].assigned )
        => /\ i = Len(fed)
           /\ task = "complete"
           /\ content = <<>>

(***************************************************************************)
(* C8: http_content_remain is assigned from a header only in the header    *)
(* phase (in_http_header), and at most once in an exchange.                *)
(***************************************************************************)
C8_RemainSetOnceInHeaderPhase ==
    /\ \A i \in 1..Len(fed) : fed[i].assigned => fed[i].hdr
    /\ Cardinality({i \in 1..Len(fed) : fed[i].assigned}) <= 1

(***************************************************************************)
(* C9: when the blank line is reached and no Content-Length header was     *)
(* seen before it, the exchange ends there with no body: the task is over  *)
(* at that line and no later line is fed to the closure.  (Stated for a    *)
(* response that began with a status line.)                                *)
(***************************************************************************)
C9_NoLengthEndsAtBlankLine ==
    \A i \in 1..Len(fed) :
        ( /\ StatusLineFirst
          /\ BlankLineAt(i)
          /\ \A j \in 1..(i - 1) : ~fed[j].assigned )
        => /\ i = Len(fed)
           /\ task \in TaskOver
           /\ content = <<>>

(***************************************************************************)
(* C10: get builds its Response from content only after the closure has    *)
(* ended the stream (the state machine's Complete): never from a content   *)
(* the parsing task has not finished, whenever the runtime's shutdown      *)
(* takes effect.  (Stated for a response with a body, and for the runs in  *)
(* which no connection read fails and the closure does not panic.)         *)
(***************************************************************************)
C10_ResponseOnlyAfterComplete ==
    ( /\ pc = "done"
      /\ result.ok
      /\ task \notin {"ioerr", "panicked"}
      /\ server.whole
      /\ server.cl > 0 )
    => task = "complete"

(***************************************************************************)
(* C11: when a connection read fails while the response is being read,     *)
(* get returns that failure as an Error (Io): it never returns a           *)
(* successful Response built from the body read so far.                    *)
(***************************************************************************)
C11_ReadFailureIsReturned ==
    (pc = "done" /\ task = "ioerr") => ~result.ok

(***************************************************************************)
(* C12: a failure while writing the request is terminal: the write is not  *)
(* retried, nothing is read, and get returns the failure as an Error (Io). *)
(***************************************************************************)
C12_WriteFailureIsTerminal ==
    (\E i \in 1..Len(wlog) : wlog[i] = "Err")
    => /\ wlog = <<"Err">>
       /\ task = "none"
       /\ pc = "done" => (~result.ok /\ result.err = "Io")

(***************************************************************************)
(* C13: no byte of the response is read and no line is fed to the closure  *)
(* before the whole of the fixed request has been written.                 *)
(***************************************************************************)
C13_WholeRequestWrittenBeforeReading ==
    (sent > 0 \/ fed # <<>>) => written = Len(REQUEST)

(***************************************************************************)
(* C14: when the url parses and its scheme is http but its host and port   *)
(* cannot be resolved to an address, get returns an Error (Io), not a      *)
(* successful Response.                                                    *)
(***************************************************************************)
C14_UnresolvableHostIsAnError ==
    (pc = "done" /\ url.parse = "Ok" /\ url.scheme = "http" /\ url.addrs < 0)
    => (~result.ok /\ result.err = "Io")

\* Every line io::lines yields from the byte string s when it is read to its end:
\* the pieces ending in "\n", then what is left when it is not empty.
RECURSIVE lines(_)
lines(s) ==
    IF s = <<>>
    THEN <<>>
    ELSE LET i == find(s, <<LF>>)
         IN  IF i < 0
             THEN <<strip_eol(s)>>
             ELSE <<strip_eol(SubSeq(s, 1, i + 1))>> \o lines(SubSeq(s, i + 2, Len(s)))

\* for_each over the lines ls from the closure's state st, polled to its end: the
\* closure's state when the stream is exhausted, or when the closure returns
\* Err(()) or panics.
RECURSIVE for_each(_, _)
for_each(st, ls) ==
    IF ls = <<>>
    THEN st
    ELSE LET c == closure(st, Head(ls))
         IN  IF c.out = "Ok" THEN for_each(c.st, Tail(ls)) ELSE c.st

\* The content read_to_end_task leaves when it is polled to its end on the bytes s.
ContentOf(s) ==
    for_each([in_http_header |-> FALSE, http_content_remain |-> 0, content |-> <<>>],
             lines(s)).content

(***************************************************************************)
(* C15: the outcome of an exchange is determined by the bytes the peer     *)
(* sends, whatever their chunking and whatever the scheduling of the       *)
(* parsing task against get: it is the outcome of parsing that byte stream *)
(* to the end of the parse.  (Stated for the runs in which no connection   *)
(* read fails: a failure is the connection's doing, not the scheduling's.) *)
(***************************************************************************)
C15_OutcomeIsAFunctionOfTheStream ==
    (pc = "done" /\ task # "ioerr")
    => result = [ok |-> TRUE, body |-> ContentOf(stream)]

\* The exchange whose task was polled to its end does return that outcome.
C15_Witness ==
    /\ pc = "done"
    /\ task = "complete"
    /\ stream = HeadLF(<<"1", "2">>) \o HELLO_WORLD
    /\ result = [ok |-> TRUE, body |-> ContentOf(stream)]
    /\ result.body = HELLO_WORLD

(***************************************************************************)
(* C16: fill_buf issues a connection read if and only if the buffer is     *)
(* logically empty (position = capacity), and then exactly one; when that  *)
(* read returns n bytes it sets position to 0 and capacity to n, the bytes *)
(* being the next n of the connection, stored from the start of the        *)
(* buffer.  When the buffer is not empty it issues no read and changes     *)
(* nothing.  In both cases the slice returned is buffer[position..capacity]*)
(* of the reader after the call.                                           *)
(***************************************************************************)
C16_FillBufRefillsOnlyWhenEmpty ==
    [][ (ops' = ops + 1 /\ ret'.op = "fill_buf") =>
        /\ ret'.reads = (IF position = capacity THEN 1 ELSE 0)
        /\ (position = capacity /\ ret'.ok) =>
              /\ position' = 0
              /\ capacity' = sent' - sent
              /\ Len(buffer') = Len(buffer)
              /\ SubSeq(buffer', 1, capacity') = SubSeq(stream, sent + 1, sent')
              /\ \A i \in (capacity' + 1)..Len(buffer) : buffer'[i] = buffer[i]
        /\ position # capacity =>
              /\ ret'.ok
              /\ UNCHANGED <<buffer, position, capacity, sent>>
        /\ ret'.ok => ret'.val = SubSeq(buffer', position' + 1, capacity')
      ]_vars

\* A refill of a buffer that was filled before and read to its end.
C16_Witness ==
    /\ ret.op = "fill_buf"
    /\ ret.ok
    /\ ret.reads = 1
    /\ ret.before.position = ret.before.capacity
    /\ ret.before.capacity > 0
    /\ capacity > 0
    /\ position = 0
    /\ ret.val = SubSeq(buffer, 1, capacity)

(***************************************************************************)
(* C17: consume(amt) saturates for every amt of the word range: position   *)
(* becomes min(position + amt, capacity) with the sum taken without        *)
(* wrap-around, so position never decreases, even when position + amt does *)
(* not fit the word; capacity and the buffer are unchanged.                *)
(***************************************************************************)
C17_ConsumeSaturates ==
    ret.op = "consume" =>
        /\ ~ret.panic
        /\ position = Min(ret.before.position + ret.amt, ret.before.capacity)
        /\ position >= ret.before.position
        /\ capacity = ret.before.capacity
        /\ buffer = ret.before.buffer

(***************************************************************************)
(* C18: read(dest) takes the direct path exactly when the buffer is empty  *)
(* (position = capacity) and dest is at least as long as the internal      *)
(* buffer: one connection read straight into dest, position and capacity   *)
(* (and the buffer) left as they were.  Otherwise it refills the buffer,   *)
(* with one connection read, only if it is empty, copies exactly           *)
(* min(len(dest), capacity - position) bytes starting at position,         *)
(* advances position by that count and returns the count.                  *)
(***************************************************************************)
C18_ReadDirectOrBuffered ==
    [][ (ops' = ops + 1 /\ ret'.op = "read") =>
        LET empty == position = capacity
            from  == IF empty THEN 0 ELSE position
            nread == Min(ret'.dest, capacity' - from)
        IN  /\ ret'.direct <=> (empty /\ ret'.dest >= Len(buffer))
            /\ ret'.direct =>
                  /\ ret'.reads = 1
                  /\ UNCHANGED <<buffer, position, capacity>>
                  /\ ret'.ok => /\ ret'.val = SubSeq(stream, sent + 1, sent')
                                /\ Len(ret'.val) <= ret'.dest
            /\ ~ret'.direct =>
                  /\ ret'.reads = (IF empty THEN 1 ELSE 0)
                  /\ ~empty => ret'.ok /\ UNCHANGED <<buffer, capacity, sent>>
                  /\ (empty /\ ret'.ok) =>
                        /\ capacity' = sent' - sent
                        /\ SubSeq(buffer', 1, capacity') = SubSeq(stream, sent + 1, sent')
                  /\ ret'.ok =>
                        /\ ret'.val = SubSeq(buffer', from + 1, from + nread)
                        /\ Len(ret'.val) = nread
                        /\ position' = from + nread
            /\ ret'.ok => handed' = handed \o ret'.val
      ]_vars

\* A buffered read that refilled the empty buffer and copied a part of it to a
\* destination shorter than what was filled.
C18_Witness ==
    /\ ret.op = "read"
    /\ ret.ok
    /\ ~ret.direct
    /\ ret.reads = 1
    /\ ret.dest > 0
    /\ Len(ret.val) = ret.dest
    /\ position = ret.dest
    /\ position < capacity

(***************************************************************************)
(* C19: while in_http_header is false and http_content_remain > 0, every   *)
(* line, whatever its content (holding "HTTP", blank, with or without a    *)
(* colon), is handled by the body accounting only: http_content_remain     *)
(* decreases by the line's length + 1, the line and one "\n" are appended  *)
(* to content (the content before stays a prefix) and in_http_header is    *)
(* unchanged.  When this brings http_content_remain to 0 or less, exactly   *)
(* one trailing "\n" is removed and the closure ends the stream; after     *)
(* that no line is fed to it and content, in_http_header and               *)
(* http_content_remain never change.                                       *)
(***************************************************************************)
C19_BodyAccountingUntilComplete ==
    [][ /\ (fed' # fed /\ ~in_http_header /\ http_content_remain > 0) =>
            LET e == fed'[Len(fed')]
            IN  /\ fed' = Append(fed, e)
                /\ e.acct
                /\ ~e.assigned
                /\ http_content_remain' = http_content_remain - (Len(e.line) + 1)
                /\ in_http_header' = in_http_header
                /\ IsPrefix(content, content')
                /\ IF http_content_remain' > 0
                   THEN /\ content' = content \o e.line \o <<LF>>
                        /\ task' = "polling"
                   ELSE /\ content' \o <<LF>> = content \o e.line \o <<LF>>
                        /\ task' = "complete"
        /\ task = "complete" => UNCHANGED <<parseVars, task>>
      ]_vars

\* A blank line and then a line holding "HTTP" went through the body accounting,
\* and the second one completed the body.
C19_Witness ==
    /\ task = "complete"
    /\ http_content_remain <= 0
    /\ Len(fed) >= 2
    /\ fed[Len(fed)].acct
    /\ find(fed[Len(fed)].line, HTTP) >= 0
    /\ fed[Len(fed) - 1].acct
    /\ trim(fed[Len(fed) - 1].line) = <<>>
    /\ content = fed[Len(fed) - 1].line \o <<LF>> \o fed[Len(fed)].line

(***************************************************************************)
(* C20: when the connection read fails inside fill_buf or read (WouldBlock *)
(* on the non-blocking socket included), position, capacity and the        *)
(* buffer, hence the unread bytes, are unchanged, no byte is taken from    *)
(* the connection and none is handed to the caller: the same call made     *)
(* again finds the same next bytes.                                        *)
(***************************************************************************)
C20_FailedReadChangesNothing ==
    [][ (ops' = ops + 1 /\ ret'.op \in {"fill_buf", "read"} /\ ~ret'.ok) =>
        /\ ret'.reads = 1
        /\ ret'.val = <<>>
        /\ UNCHANGED <<buffer, position, capacity, sent, handed>>
      ]_vars

\* A fill_buf whose read failed on a buffer that had been filled and read to its
\* end, with bytes of the stream still to come.
C20_Witness ==
    /\ ret.op = "fill_buf"
    /\ ~ret.ok
    /\ ret.before.capacity > 0
    /\ HttpStream = ret.before
    /\ position = capacity
    /\ sent < Len(stream)

====
